---- MODULE Spec2Model ----
(***************************************************************************)
(* A model of riemannian_score_sde: the three loss functions of losses.py  *)
(* (DSM, ISM, Moser flow) as line-by-line state machines over explicit     *)
(* PRNG keys, and the Brownian / ReverseBrownian SDE objects of sde.py.    *)
(*                                                                         *)
(* Keys are paths: random.split(k) yields the two children k \o <<0>> and  *)
(* k \o <<1>>, so two keys are equal exactly when they are the same value. *)
(* Times, eps and densities are integers on a grid; losses are exact       *)
(* rationals <<numerator, denominator>>.                                   *)
(***************************************************************************)
EXTENDS Integers, Sequences, FiniteSets, TLC

VARIABLES
    \* ---- losses.py: one loss-function factory and its loss_fn calls ----
    pc,        \* position: "new", "constructed", a line label, "done", "raised"
    cfg,       \* what the factory closed over (loss kind, flags, eps, sde)
    batchDim,  \* dimensionality of the points of batch["data"]
    rng,       \* the local variable rng of loss_fn
    step_rng,  \* the local variable step_rng of loss_fn (closures read it late)
    uses,      \* every key handed to a stochastic operation, in order
    t,         \* the sampled time (Nothing before line 48 / 112)
    nEval,     \* score evaluations done inside the current div_fn call
    usedHist,  \* the l_{t|s} target was computed from x_hist[-2], timesteps
    err,       \* the exception that ended the call, "none" otherwise
    \* ---- sde.py: the SDE objects ----
    objs,      \* the heap: a sequence of SDE objects, a reference is an index
    cur,       \* the reference the caller holds
    origin,    \* the forward SDE on which reverse(score_fn) was last called
    coef,      \* the last result of cur.coefficients(x, t)
    \* ---- sde.py: one Brownian.marginal_sample call ----
    msPc,      \* "idle", "walk", "check", "run", "ret"
    msArgs,    \* the arguments (rng, x, t) of the call
    msWalk,    \* whether manifold.random_walk was called and what it returned
    msSampler, \* the arguments get_pc_sampler was called with, Nothing if never
    msSteps,   \* predictor steps the sampler has taken
    msX,       \* the sampler's current state
    msOut,     \* the value marginal_sample returned
    \* ---- losses.py: pure numeric parts ----
    muIn,      \* inputs of one mu(x) evaluation of the Moser loss
    muOut,     \* its (mu_plus, mu_minus)
    redIn,     \* inputs of the DSM reduction (lines 69-81)
    redOut     \* the DSM loss, a rational

lossVars == <<pc, cfg, batchDim, rng, step_rng, uses, t, nEval, usedHist, err>>
sdeVars  == <<objs, cur, origin, coef>>
msVars   == <<msPc, msArgs, msWalk, msSampler, msSteps, msX, msOut>>
numVars  == <<muIn, muOut, redIn, redOut>>
vars     == <<lossVars, sdeVars, msVars, numVars>>

NoneVal == "None"
\* An optional value is a sequence of at most one element.
Nothing == <<>>
Some(v) == <<v>>

(***************************************************************************)
(* Bounds of the model.                                                    *)
(***************************************************************************)
MaxDivEvals == 2      \* score evaluations one divergence estimate may make
MaxSeed     == 1      \* root keys are <<0>> .. <<MaxSeed>>
MaxEps      == 4      \* eps ranges over 1 .. MaxEps grid units
MaxTf       == 3      \* sde.tf ranges over 2 .. MaxTf grid units

\* Brownian.__init__: t0: float = 0
DefaultT0 == 0

Bool == {TRUE, FALSE}

(***************************************************************************)
(* PRNG keys.                                                              *)
(***************************************************************************)
\* jax.random.split(key): two fresh keys; callers bind them rng, step_rng.
RandomSplit(key) == [rng |-> Append(key, 0), step_rng |-> Append(key, 1)]

\* A key handed to a stochastic operation.
Use(op, key) == [op |-> op, key |-> key]

\* jax.random.uniform(key, minval, maxval): a value of [minval, maxval); the
\* result is clamped from below by minval, so an empty range yields minval.
RandomUniform(minval, maxval) ==
    IF minval < maxval THEN minval .. (maxval - 1) ELSE {minval}

\* The parameters Brownian.marginal_sample accepts (besides self).
MarginalSampleParams == {"rng", "x", "t"}

\* Python binds the arguments before the body runs: an unknown keyword is a
\* TypeError and nothing of the body happens.
CallAccepted(kwargs) == kwargs \subseteq MarginalSampleParams

(***************************************************************************)
(* losses.py, the factories.  None of them validates its arguments.        *)
(***************************************************************************)
IdleLoss ==
    /\ pc = "new"
    /\ cfg = [loss |-> "none", sde |-> [t0 |-> DefaultT0, tf |-> DefaultT0, dim |-> 0],
              reduce_mean |-> TRUE, like_w |-> TRUE, s_zero |-> TRUE,
              hutchinson_type |-> "none", eps |-> 0]
    /\ batchDim = 0
    /\ rng = <<>>
    /\ step_rng = <<>>
    /\ uses = <<>>
    /\ t = Nothing
    /\ nEval = 0
    /\ usedHist = FALSE
    /\ err = "none"

\* Dimensionalities a manifold may expect and a batch's points may have.
Dims == {2, 3}

\* pushforward.sde as far as the losses read it: its time interval and the
\* dimensionality its manifold expects.
Sdes == {[t0 |-> DefaultT0, tf |-> f, dim |-> d] : f \in 2 .. MaxTf, d \in Dims}

get_dsm_loss_fn ==
    /\ pc = "new"
    /\ \E sde \in Sdes, rm \in Bool, lw \in Bool, sz \in Bool, e \in 1 .. MaxEps :
          cfg' = [loss |-> "dsm", sde |-> sde, reduce_mean |-> rm, like_w |-> lw,
                  s_zero |-> sz, hutchinson_type |-> "none", eps |-> e]
    /\ pc' = "constructed"
    /\ UNCHANGED <<batchDim, rng, step_rng, uses, t, nEval, usedHist, err>>

get_ism_loss_fn ==
    /\ pc = "new"
    /\ \E sde \in Sdes, rm \in Bool, lw \in Bool, e \in 1 .. MaxEps,
          h \in {"Rademacher", "Gaussian"} :
          cfg' = [loss |-> "ism", sde |-> sde, reduce_mean |-> rm, like_w |-> lw,
                  s_zero |-> TRUE, hutchinson_type |-> h, eps |-> e]
    /\ pc' = "constructed"
    /\ UNCHANGED <<batchDim, rng, step_rng, uses, t, nEval, usedHist, err>>

get_moser_loss_fn ==
    /\ pc = "new"
    /\ \E sde \in Sdes, e \in 1 .. MaxEps, h \in {"Rademacher", "Gaussian"} :
          cfg' = [loss |-> "moser", sde |-> sde, reduce_mean |-> TRUE,
                  like_w |-> TRUE, s_zero |-> TRUE, hutchinson_type |-> h,
                  eps |-> e]
    /\ pc' = "constructed"
    /\ UNCHANGED <<batchDim, rng, step_rng, uses, t, nEval, usedHist, err>>

FirstLine == [dsm |-> "dsm46", ism |-> "ism111", moser |-> "moser155"]

\* loss_fn(rng, params, states, batch) up to x_0 = batch["data"]: the score or
\* drift function is bound and the data read; the shape of the data is not
\* looked at.
loss_fn_enter ==
    /\ pc \in {"constructed", "done", "raised"}
    /\ \E seed \in 0 .. MaxSeed, d \in Dims :
          /\ rng' = <<seed>>
          /\ batchDim' = d
    /\ step_rng' = <<>>
    /\ uses' = <<>>
    /\ t' = Nothing
    /\ nEval' = 0
    /\ usedHist' = FALSE
    /\ err' = "none"
    /\ pc' = FirstLine[cfg.loss]
    /\ UNCHANGED cfg

\* rng, step_rng = random.split(rng)
SplitAt(from, to) ==
    /\ pc = from
    /\ uses' = Append(uses, Use("split", rng))
    /\ rng' = RandomSplit(rng).rng
    /\ step_rng' = RandomSplit(rng).step_rng
    /\ pc' = to
    /\ UNCHANGED <<cfg, batchDim, t, nEval, usedHist, err>>

\* An operation that draws with the current value of step_rng.
DrawAt(from, op, to) ==
    /\ pc = from
    /\ uses' = Append(uses, Use(op, step_rng))
    /\ pc' = to
    /\ UNCHANGED <<cfg, batchDim, rng, step_rng, t, nEval, usedHist, err>>

\* t = random.uniform(step_rng, (N,), minval=sde.t0 + eps, maxval=sde.tf)
UniformAt(from, to) ==
    /\ pc = from
    /\ uses' = Append(uses, Use("uniform", step_rng))
    /\ \E v \in RandomUniform(cfg.sde.t0 + cfg.eps, cfg.sde.tf) : t' = Some(v)
    /\ pc' = to
    /\ UNCHANGED <<cfg, batchDim, rng, step_rng, nEval, usedHist, err>>

(***************************************************************************)
(* get_dsm_loss_fn.loss_fn                                                 *)
(***************************************************************************)
dsm46 == SplitAt("dsm46", "dsm48")
dsm48 == UniformAt("dsm48", "dsm51")
dsm51 == SplitAt("dsm51", "dsm55")

\* if s_zero: x_t = sde.marginal_sample(step_rng, x_0, t)
dsm56 ==
    /\ pc = "dsm55"
    /\ cfg.s_zero
    /\ DrawAt("dsm55", "marginal_sample", "dsm67")

\* else: x_t, x_hist, timesteps = sde.marginal_sample(step_rng, x_0, t,
\*       return_hist=True); x_s = x_hist[-2]; varhadan_exp(..., timesteps[-2],
\*       timesteps[-1])
dsm60 ==
    /\ pc = "dsm55"
    /\ ~cfg.s_zero
    /\ IF CallAccepted({"rng", "x", "t", "return_hist"})
         THEN /\ uses' = Append(uses, Use("marginal_sample", step_rng))
              /\ usedHist' = TRUE
              /\ pc' = "dsm67"
              /\ err' = err
         ELSE /\ err' = "TypeError"
              /\ pc' = "raised"
              /\ UNCHANGED <<uses, usedHist>>
    /\ UNCHANGED <<cfg, batchDim, rng, step_rng, t, nEval>>

\* score, new_model_state = score_fn(x_t, t, rng=step_rng)
dsm67 == DrawAt("dsm67", "score_fn", "dsm69")

\* lines 69-82: the reduction, return loss, new_model_state
dsm69 ==
    /\ pc = "dsm69"
    /\ pc' = "done"
    /\ UNCHANGED <<cfg, batchDim, rng, step_rng, uses, t, nEval, usedHist, err>>

(***************************************************************************)
(* get_ism_loss_fn.loss_fn                                                 *)
(***************************************************************************)
ism111 == SplitAt("ism111", "ism112")
ism112 == UniformAt("ism112", "ism116")
ism116 == SplitAt("ism116", "ism117")
ism117 == DrawAt("ism117", "marginal_sample", "ism118")
ism118 == DrawAt("ism118", "score_fn", "ism121")
ism121 == SplitAt("ism121", "ism122")
ism122 == DrawAt("ism122", "div_noise", "ism125")

\* div_score = div_fn(x_t, t, epsilon): the estimator evaluates
\* drift_fn = lambda x, t: score_fn(x, t, rng=step_rng)[0] one or more times;
\* the lambda reads step_rng when it is called.
ism125_eval ==
    /\ pc = "ism125"
    /\ nEval < MaxDivEvals
    /\ uses' = Append(uses, Use("div_score_fn", step_rng))
    /\ nEval' = nEval + 1
    /\ UNCHANGED <<pc, cfg, batchDim, rng, step_rng, t, usedHist, err>>

\* lines 126-134: losses, optional g2 weighting, mean, return
ism126 ==
    /\ pc = "ism125"
    /\ nEval >= 1
    /\ pc' = "done"
    /\ UNCHANGED <<cfg, batchDim, rng, step_rng, uses, t, nEval, usedHist, err>>

(***************************************************************************)
(* get_moser_loss_fn.loss_fn                                               *)
(***************************************************************************)
moser155 == SplitAt("moser155", "moser171")
\* mu_plus = mu(x_0)[0]: inside mu, epsilon = div_noise(step_rng, ...)
moser171 == DrawAt("moser171", "div_noise", "moser174")
moser174 == SplitAt("moser174", "moser175")
\* xs = pushforward.base.sample(step_rng, (K,))
moser175 == DrawAt("moser175", "base.sample", "moser178")
\* _, mu_minus = mu(xs): mu reads the step_rng of line 174
moser178 == DrawAt("moser178", "div_noise", "moser179")

\* lines 179-185: penalty, loss, return loss, states
moser179 ==
    /\ pc = "moser179"
    /\ pc' = "done"
    /\ UNCHANGED <<cfg, batchDim, rng, step_rng, uses, t, nEval, usedHist, err>>

(***************************************************************************)
(* sde.py: Brownian and ReverseBrownian.                                   *)
(*                                                                         *)
(* Vectors are functions on Idx, a matrix-valued diffusion is a function   *)
(* Idx -> Idx -> Int.  beta is in tenths (the defaults 0.1 and 20 are 1    *)
(* and 200); the schedules and times drawn below make every beta(t) a      *)
(* perfect square, so that sqrt is exact on them as it is (to rounding)    *)
(* on floats.                                                              *)
(***************************************************************************)
MaxObjs == 4          \* SDE objects one run may construct

\* Brownian.__init__: beta_0=0.1, beta_f=20, in tenths
DefaultBeta0 == 1
DefaultBetaF == 200

Idx == {1, 2}
Vecs == {<<0, 1>>, <<1, 0>>, <<2, -1>>}
Zero == [i \in Idx |-> 0]

RECURSIVE SumOver(_, _)
SumOver(f, S) ==
    IF S = {} THEN 0
    ELSE LET i == CHOOSE j \in S : TRUE IN f[i] + SumOver(f, S \ {i})

\* jnp.sqrt on the grid: the integer square root.
Sqrt(n) == CHOOSE r \in 0 .. n : r * r <= n /\ (r + 1) * (r + 1) > n

\* (tf, beta_0, beta_f) of the forward Brownian motions: beta is a perfect
\* square at every grid time of [0, tf].
Schedules == {<<1, 1, 4>>, <<1, 1, 49>>, <<2, 1, 49>>, <<2, 49, 289>>}

\* Matrix-valued diffusions and drifts of a forward SDE that declares
\* full_diffusion_matrix (the sde: SDE argument of ReverseBrownian.__init__).
Matrices == {<<<<1, 0>>, <<0, 1>>>>, <<<<1, 2>>, <<0, 1>>>>, <<<<2, 1>>, <<-1, 3>>>>}

\* The score functions handed to reverse: callables (x, t) -> tangent vector.
ScoreIds == {1, 2}
ScoreFn(id, x, tt) ==
    IF id = 1 THEN [i \in Idx |-> x[i] + tt] ELSE <<tt + 1, 0 - x[1]>>

\* Brownian.__init__(manifold, tf, t0, beta_0, beta_f); SDE.__init__(tf, t0)
\* keeps the interval.  Brownian leaves full_diffusion_matrix at the base
\* class's False.
BrownianInit(tf, t0, beta_0, beta_f) ==
    [cls |-> "Brownian", t0 |-> t0, tf |-> tf, beta_0 |-> beta_0,
     beta_f |-> beta_f, full |-> FALSE, G |-> Zero, drift |-> Zero,
     sde |-> 0, score_fn |-> 0]

\* A forward SDE with a constant drift and a matrix-valued diffusion.
MatrixSde(tf, G, drift) ==
    [cls |-> "SDE", t0 |-> DefaultT0, tf |-> tf, beta_0 |-> 0, beta_f |-> 0,
     full |-> TRUE, G |-> G, drift |-> drift, sde |-> 0, score_fn |-> 0]

\* ReverseBrownian.__init__(sde, score_fn):
\*   super().__init__(sde.manifold, tf=sde.t0, t0=sde.tf); self.sde = sde;
\*   self.score_fn = score_fn
ReverseBrownianInit(heap, ref, score_fn) ==
    [BrownianInit(heap[ref].t0, heap[ref].tf, DefaultBeta0, DefaultBetaF)
        EXCEPT !.cls = "ReverseBrownian", !.sde = ref, !.score_fn = score_fn]

\* Brownian.beta_t
beta_t(o, tt) ==
    o.beta_0 + ((tt - o.t0) * (o.beta_f - o.beta_0)) \div (o.tf - o.t0)

\* Brownian.coefficients: drift = zeros_like(x), diffusion = sqrt(beta_t)
BrownianCoefficients(o, x, tt) ==
    [drift |-> [i \in Idx |-> 0], diffusion |-> Sqrt(beta_t(o, tt))]

\* The contraction with the second factor not transposed: G G score.
EinsumNoTranspose(D, s) ==
    [i \in Idx |->
        SumOver([j \in Idx |-> SumOver([k \in Idx |-> D[i][j] * D[j][k] * s[k]], Idx)],
                Idx)]

\* jnp.einsum("...ij,...kj,...k->...i", diffusion, diffusion, score_fn)
EinsumFull(D, s) ==
    [i \in Idx |->
        SumOver([j \in Idx |-> SumOver([k \in Idx |-> D[i][j] * D[k][j] * s[k]], Idx)],
                Idx)]

\* jnp.einsum("...,...,...i->...i", diffusion, diffusion, score_fn)
EinsumScalar(d, s) == [i \in Idx |-> d * d * s[i]]

\* ReverseBrownian.coefficients, given what self.sde.coefficients(x, t) and
\* self.score_fn(x, t) returned
ReverseCoefficients(full, fwd, score) ==
    [drift |-> IF full
                 THEN [i \in Idx |-> fwd.drift[i] - EinsumFull(fwd.diffusion, score)[i]]
                 ELSE [i \in Idx |-> fwd.drift[i] - EinsumScalar(fwd.diffusion, score)[i]],
     diffusion |-> fwd.diffusion]

\* obj.coefficients(x, t), dispatched on the object's class
RECURSIVE Coefficients(_, _, _, _)
Coefficients(heap, ref, x, tt) ==
    LET o == heap[ref] IN
    CASE o.cls = "Brownian" -> BrownianCoefficients(o, x, tt)
      [] o.cls = "SDE" -> [drift |-> o.drift, diffusion |-> o.G]
      [] o.cls = "ReverseBrownian" ->
            ReverseCoefficients(heap[o.sde].full,
                                Coefficients(heap, o.sde, x, tt),
                                ScoreFn(o.score_fn, x, tt))

NoCoef == [ref |-> 0]
NoOrigin == [ref |-> 0, obj |-> Nothing, op |-> "none"]

IdleSde ==
    /\ objs = <<>>
    /\ cur = 0
    /\ origin = NoOrigin
    /\ coef = NoCoef

\* The forward SDE of a run: a Brownian motion or a matrix-diffusion SDE.
InitSde ==
    /\ \/ \E sch \in Schedules :
             objs = <<BrownianInit(sch[1], DefaultT0, sch[2], sch[3])>>
       \/ \E G \in Matrices, d \in Vecs : objs = <<MatrixSde(1, G, d)>>
    /\ cur = 1
    /\ origin = NoOrigin
    /\ coef = NoCoef

\* Brownian.reverse(score_fn): return ReverseBrownian(self, score_fn).  The
\* same constructor call reverses a forward SDE of another class.
BrownianReverse ==
    /\ objs[cur].cls # "ReverseBrownian"
    /\ Len(objs) < MaxObjs
    /\ \E s \in ScoreIds : objs' = Append(objs, ReverseBrownianInit(objs, cur, s))
    /\ cur' = Len(objs) + 1
    /\ origin' = [ref |-> cur, obj |-> Some(objs[cur]), op |-> "reverse"]
    /\ coef' = NoCoef

\* A reverse() that rebuilds a forward Brownian motion from the reverse SDE's
\* own fields instead of returning the stored one.
ReverseRefRebuilt(heap, ref) ==
    [heap |-> Append(heap, BrownianInit(heap[ref].t0, heap[ref].tf,
                                        heap[ref].beta_0, heap[ref].beta_f)),
     ref |-> Len(heap) + 1]

\* ReverseBrownian.reverse(): return self.sde
ReverseRef(heap, ref) == [heap |-> heap, ref |-> heap[ref].sde]

ReverseBrownianReverse ==
    /\ objs[cur].cls = "ReverseBrownian"
    /\ objs' = ReverseRef(objs, cur).heap
    /\ cur' = ReverseRef(objs, cur).ref
    /\ origin' = [origin EXCEPT !.op = "reversed_back"]
    /\ coef' = NoCoef

\* The times of an object's interval, whichever way round it runs.
Times(o) == IF o.t0 <= o.tf THEN o.t0 .. o.tf ELSE o.tf .. o.t0

\* cur.coefficients(x, t)
EvalCoefficients ==
    /\ \E x \in Vecs, tt \in Times(objs[cur]) :
          coef' = [ref |-> cur, x |-> x, t |-> tt,
                   out |-> Coefficients(objs, cur, x, tt)]
    /\ UNCHANGED <<objs, cur, origin>>

(***************************************************************************)
(* sde.py: Brownian.marginal_sample(rng, x, t), statement by statement.    *)
(***************************************************************************)
\* get_pc_sampler(self, 100, ...): the number of predictor steps
NumSteps == 100

MaxT == 2             \* marginal_sample is asked for t in 1 .. MaxT

\* random_walk not called yet; its result is Nothing (None) or Some(point)
Uncalled == [called |-> FALSE, ret |-> Nothing]

IdleMs ==
    /\ msPc = "idle"
    /\ msArgs = Nothing
    /\ msWalk = Uncalled
    /\ msSampler = Nothing
    /\ msSteps = 0
    /\ msX = Nothing
    /\ msOut = Nothing

\* a call sde.marginal_sample(rng, x, t)
marginal_sample_enter ==
    /\ msPc \in {"idle", "ret"}
    /\ \E seed \in 0 .. MaxSeed, x \in Vecs, tt \in 1 .. MaxT :
          msArgs' = Some([rng |-> <<seed>>, x |-> x, t |-> tt])
    /\ msPc' = "walk"
    /\ msWalk' = Uncalled
    /\ msSampler' = Nothing
    /\ msSteps' = 0
    /\ msX' = Nothing
    /\ msOut' = Nothing

\* perturbed_x = self.manifold.random_walk(rng, x, t): a point, or None when
\* the manifold has no closed form
random_walk ==
    /\ msPc = "walk"
    /\ \E r \in {Nothing} \cup {Some(v) : v \in Vecs} :
          msWalk' = [called |-> TRUE, ret |-> r]
    /\ msPc' = "check"
    /\ UNCHANGED <<msArgs, msSampler, msSteps, msX, msOut>>

\* The test the wrong way round.
NeedsSamplerInverted(perturbed_x) == perturbed_x # Nothing

\* if perturbed_x is None:
NeedsSampler(perturbed_x) == perturbed_x = Nothing

\* sampler = get_pc_sampler(self, 100,
\*     predictor="EulerMaruyamaManifoldPredictor", corrector=None)
GetPcSamplerArgs ==
    [sde |-> "self", N |-> NumSteps,
     predictor |-> "EulerMaruyamaManifoldPredictor", corrector |-> NoneVal]

\* ... then sampler(rng, x, tf=t) is entered
get_pc_sampler ==
    /\ msPc = "check"
    /\ NeedsSampler(msWalk.ret)
    /\ msSampler' = Some([args |-> GetPcSamplerArgs,
                          call |-> [rng |-> msArgs[1].rng, x |-> msArgs[1].x,
                                    tf |-> msArgs[1].t]])
    /\ msX' = Some(msArgs[1].x)
    /\ msSteps' = 0
    /\ msPc' = "run"
    /\ UNCHANGED <<msArgs, msWalk, msOut>>

\* one predictor step of the sampler: a new point of the manifold
sampler_step ==
    /\ msPc = "run"
    /\ msSteps < msSampler[1].args.N
    /\ \E v \in Vecs : msX' = Some(v)
    /\ msSteps' = msSteps + 1
    /\ UNCHANGED <<msPc, msArgs, msWalk, msSampler, msOut>>

\* perturbed_x, _ = sampler(rng, x, tf=t); return perturbed_x
sampler_return ==
    /\ msPc = "run"
    /\ msSteps = msSampler[1].args.N
    /\ msOut' = msX
    /\ msPc' = "ret"
    /\ UNCHANGED <<msArgs, msWalk, msSampler, msSteps, msX>>

\* return perturbed_x, when random_walk gave one
walk_return ==
    /\ msPc = "check"
    /\ ~NeedsSampler(msWalk.ret)
    /\ msOut' = msWalk.ret
    /\ msPc' = "ret"
    /\ UNCHANGED <<msArgs, msWalk, msSampler, msSteps, msX>>

(***************************************************************************)
(* losses.py: mu(x) of the Moser loss, on integers.                        *)
(***************************************************************************)
MaxDensity == 3       \* prob_base ranges over 0 .. MaxDensity
MaxDiv     == 4       \* div_drift ranges over -MaxDiv .. MaxDiv
MaxMuEps   == 2       \* eps ranges over -1 .. MaxMuEps

Maximum(a, b) == IF a >= b THEN a ELSE b
Minimum(a, b) == IF a <= b THEN a ELSE b

\* mu = prob_base - div_drift
MuOf(prob_base, div_drift) == prob_base - div_drift
\* mu_plus = jnp.maximum(eps, mu)
MuPlus(eps, mu) == Maximum(eps, mu)
\* The negative part taken with maximum in place of minimum.
MuMinusWithMaximum(eps, mu) == eps - Maximum(eps, mu)
\* mu_minus = eps - jnp.minimum(eps, mu)
MuMinus(eps, mu) == eps - Minimum(eps, mu)

IdleMu ==
    /\ muIn = Nothing
    /\ muOut = Nothing

\* one point of one call mu(x): prob_base = exp(log_prob(x)), div_drift =
\* div_fn(x, t, epsilon), then lines 165-168
mu ==
    /\ \E pb \in 0 .. MaxDensity, dv \in (0 - MaxDiv) .. MaxDiv, e \in -1 .. MaxMuEps :
          /\ muIn' = Some([prob_base |-> pb, div_drift |-> dv, eps |-> e])
          /\ muOut' = Some([mu |-> MuOf(pb, dv),
                            mu_plus |-> MuPlus(e, MuOf(pb, dv)),
                            mu_minus |-> MuMinus(e, MuOf(pb, dv)),
                            raised |-> FALSE])

(***************************************************************************)
(* losses.py: the reduction of the DSM loss (lines 27-31 and 69-81), on    *)
(* exact rationals <<numerator, denominator>> with positive denominators.  *)
(***************************************************************************)
MaxBatch == 2         \* a batch holds 1 .. MaxBatch examples

FeatDims == {1, 2}    \* components per example
ScoreVals == {0, 1, 3} \* components of the model's score
GradVals == {1}       \* components of the target score logp_grad
WeightVals == {1, 2}  \* values of std and of the diffusion coefficient

RatMul(a, b) == <<a[1] * b[1], a[2] * b[2]>>
RatAdd(a, b) == <<a[1] * b[2] + b[1] * a[2], a[2] * b[2]>>
RatEq(a, b) == a[1] * b[2] = b[1] * a[2]

RECURSIVE RatSum(_)
RatSum(v) == IF v = <<>> THEN <<0, 1>> ELSE RatAdd(Head(v), RatSum(Tail(v)))

\* jnp.mean(v)
Mean(v) == RatMul(RatSum(v), <<1, Len(v)>>)

\* lambda *args, **kwargs: 0.5 * jnp.sum(*args, **kwargs)
HalfSum(v) == RatMul(<<1, 2>>, RatSum(v))

\* reduce_op = jnp.mean if reduce_mean else the half-sum
reduce_op(reduce_mean, v) == IF reduce_mean THEN Mean(v) ELSE HalfSum(v)

\* jnp.square(score - logp_grad) of one example, after the optional
\* batch_mul(std, .) of both
SquaredError(score, logp_grad, scale) ==
    [j \in DOMAIN score |->
        <<(scale * score[j] - scale * logp_grad[j]) * (scale * score[j] - scale * logp_grad[j]), 1>>]

\* lines 69-79: the per-example losses
Losses(in) ==
    [i \in 1 .. in.N |->
        IF ~in.like_w
          THEN reduce_op(in.reduce_mean,
                         SquaredError(in.score[i], in.logp_grad[i], in.std[i]))
          ELSE RatMul(reduce_op(in.reduce_mean,
                                SquaredError(in.score[i], in.logp_grad[i], 1)),
                      <<in.g2[i], 1>>)]

\* The batch reduced with reduce_op, as the components are.
BatchReduceWithReduceOp(reduce_mean, losses) == reduce_op(reduce_mean, losses)

\* line 81: loss = jnp.mean(losses)
BatchReduce(reduce_mean, losses) == Mean(losses)

IdleRed ==
    /\ redIn = Nothing
    /\ redOut = Nothing

\* The inputs of one reduction.  Only the weight the taken branch reads is
\* varied: std when like_w is off, g2 = diffusion ** 2 when it is on.
RedInputs(maxN) ==
    UNION {
      { [N |-> n, D |-> d, reduce_mean |-> rm, like_w |-> lw,
         score |-> sc, logp_grad |-> lg,
         std |-> IF lw THEN [i \in 1 .. n |-> 1] ELSE w,
         g2 |-> IF lw THEN [i \in 1 .. n |-> w[i] * w[i]] ELSE [i \in 1 .. n |-> 1]] :
          sc \in [1 .. n -> [1 .. d -> ScoreVals]],
          lg \in [1 .. n -> [1 .. d -> GradVals]],
          w \in [1 .. n -> WeightVals],
          rm \in Bool, lw \in Bool } :
      n \in 1 .. maxN, d \in FeatDims }

dsm_reduce ==
    /\ redIn = Nothing
    /\ \E in \in RedInputs(MaxBatch) :
          /\ redIn' = Some(in)
          /\ redOut' = Some([losses |-> Losses(in),
                             loss |-> BatchReduce(in.reduce_mean, Losses(in))])

(***************************************************************************)
(* The specifications: one per part of the program, the other parts idle.  *)
(***************************************************************************)
InitLoss == IdleLoss /\ IdleSde /\ IdleMs /\ IdleMu /\ IdleRed

NextLoss ==
    /\ \/ get_dsm_loss_fn
       \/ get_ism_loss_fn
       \/ get_moser_loss_fn
       \/ loss_fn_enter
       \/ dsm46
       \/ dsm48
       \/ dsm51
       \/ dsm56
       \/ dsm60
       \/ dsm67
       \/ dsm69
       \/ ism111
       \/ ism112
       \/ ism116
       \/ ism117
       \/ ism118
       \/ ism121
       \/ ism122
       \/ ism125_eval
       \/ ism126
       \/ moser155
       \/ moser171
       \/ moser174
       \/ moser175
       \/ moser178
       \/ moser179
    /\ UNCHANGED <<sdeVars, msVars, numVars>>

SpecLoss == InitLoss /\ [][NextLoss]_vars

InitSdeSpec == IdleLoss /\ InitSde /\ IdleMs /\ IdleMu /\ IdleRed

NextSde ==
    /\ \/ BrownianReverse
       \/ ReverseBrownianReverse
       \/ EvalCoefficients
    /\ UNCHANGED <<lossVars, msVars, numVars>>

SpecSde == InitSdeSpec /\ [][NextSde]_vars

InitMs == IdleLoss /\ IdleSde /\ IdleMs /\ IdleMu /\ IdleRed

NextMs ==
    /\ \/ marginal_sample_enter
       \/ random_walk
       \/ get_pc_sampler
       \/ sampler_step
       \/ sampler_return
       \/ walk_return
    /\ UNCHANGED <<lossVars, sdeVars, numVars>>

SpecMs == InitMs /\ [][NextMs]_vars

InitNum == IdleLoss /\ IdleSde /\ IdleMs /\ IdleMu /\ IdleRed

NextMu == mu /\ UNCHANGED <<lossVars, sdeVars, msVars, redIn, redOut>>

SpecMu == InitNum /\ [][NextMu]_vars

NextRed == dsm_reduce /\ UNCHANGED <<lossVars, sdeVars, msVars, muIn, muOut>>

SpecRed == InitNum /\ [][NextRed]_vars

Init == InitSdeSpec
Next == NextLoss \/ NextSde \/ NextMs \/ NextMu \/ NextRed
Spec == Init /\ [][Next]_vars

(***************************************************************************)
(* Properties of the loss functions, checked under SpecLoss.               *)
(***************************************************************************)
KeysOf(ops) == {uses[i].key : i \in {k \in DOMAIN uses : uses[k].op \in ops}}

InCall == pc \notin {"new", "constructed"}

\* C1: in every call of the DSM, ISM and Moser loss functions a key handed to
\* one stochastic operation (split, uniform, marginal_sample, a score
\* evaluation, div_noise, base.sample) is never handed to a second one.
C1_EachKeyConsumedOnce ==
    \A i, j \in DOMAIN uses : i # j => uses[i].key # uses[j].key

\* C2: in the ISM loss the key of the Hutchinson noise draw differs from the
\* marginal-sampling key and from every key passed to a score evaluation,
\* and all score evaluations inside the one divergence estimate get one key.
C2_NoiseKeyIndependent ==
    (InCall /\ cfg.loss = "ism") =>
        /\ \A k \in KeysOf({"div_noise"}) :
              /\ k \notin KeysOf({"marginal_sample"})
              /\ k \notin KeysOf({"score_fn", "div_score_fn"})
        /\ Cardinality(KeysOf({"div_score_fn"})) <= 1

\* C5: a DSM or ISM loss function constructed with sde.t0 + eps >= sde.tf
\* fails with a ConfigurationError at construction, so no call samples a
\* time outside (t0, tf].
C5_MisconfiguredEpsRejected ==
    (pc # "new" /\ cfg.loss \in {"dsm", "ism"}) =>
        /\ (cfg.sde.t0 + cfg.eps >= cfg.sde.tf) => (err = "ConfigurationError")
        /\ (t # Nothing) => (cfg.sde.t0 < t[1] /\ t[1] <= cfg.sde.tf)

\* C6: when the points of batch["data"] do not have the dimensionality the
\* manifold expects, the call fails with a DimensionMismatch error before
\* any key is split or consumed.
C6_DimensionMismatchFailsFast ==
    (InCall /\ batchDim # cfg.sde.dim) =>
        /\ err = "DimensionMismatch"
        /\ uses = <<>>

\* C9: a DSM loss call with s_zero=False completes and returns its (loss,
\* state) pair, the target score having been computed from the history
\* marginal_sample returned (x_hist[-2], x_t, timesteps[-2], timesteps[-1]).
C9_HistoryBranchCompletes ==
    (cfg.loss = "dsm" /\ ~cfg.s_zero /\ pc \in {"done", "raised"}) =>
        /\ pc = "done"
        /\ err = "none"
        /\ usedHist

(***************************************************************************)
(* Properties of the SDE objects, checked under SpecSde.                   *)
(***************************************************************************)
IsReverse(ref) == ref # 0 /\ objs[ref].cls = "ReverseBrownian"

\* C3: reversing the reverse SDE obtained from X.reverse(s) yields the object
\* X itself, unchanged, so its drift and diffusion are those of X at every
\* (x, t); this holds after any number of alternating reverse operations.
C3_ReverseOfReverseIsOriginal ==
    (origin.op = "reversed_back") =>
        /\ cur = origin.ref
        /\ objs[cur] = origin.obj[1]
        /\ \A x \in Vecs, tt \in Times(origin.obj[1]) :
              Coefficients(objs, cur, x, tt) = Coefficients(origin.obj, 1, x, tt)

\* The second round trip X -> reverse -> X -> reverse -> X has completed.
C3_Witness ==
    /\ origin.op = "reversed_back"
    /\ Len(objs) >= 3
    /\ cur = origin.ref

MatVec(M, v) == [i \in Idx |-> SumOver([k \in Idx |-> M[i][k] * v[k]], Idx)]
MatMulTransposed(A) ==
    [i \in Idx |-> [k \in Idx |-> SumOver([j \in Idx |-> A[i][j] * A[k][j]], Idx)]]

\* C4: the reverse SDE of S has t0' = S.tf and tf' = S.t0, and its
\* coefficients(x, t) are the diffusion G of S.coefficients(x, t) unchanged
\* and drift = forward_drift - G G^T score(x, t): the matrix product when S
\* declares a matrix-valued diffusion, G * G * score elementwise otherwise,
\* which for the Brownian SDE is -beta(t) * score.
C4_ReverseCoefficients ==
    /\ \A r \in DOMAIN objs :
          objs[r].cls = "ReverseBrownian" =>
              /\ objs[r].t0 = objs[objs[r].sde].tf
              /\ objs[r].tf = objs[objs[r].sde].t0
    /\ IsReverse(coef.ref) =>
          LET r == objs[coef.ref]
              S == objs[r.sde]
              f == Coefficients(objs, r.sde, coef.x, coef.t)
              sc == ScoreFn(r.score_fn, coef.x, coef.t)
          IN  /\ coef.out.diffusion = f.diffusion
              /\ S.full =>
                    coef.out.drift =
                        [i \in Idx |->
                            f.drift[i] - MatVec(MatMulTransposed(f.diffusion), sc)[i]]
              /\ ~S.full =>
                    coef.out.drift =
                        [i \in Idx |-> f.drift[i] - f.diffusion * f.diffusion * sc[i]]
              /\ S.cls = "Brownian" =>
                    coef.out.drift = [i \in Idx |-> 0 - beta_t(S, coef.t) * sc[i]]

\* A reverse SDE over a matrix diffusion that is not symmetric has been
\* evaluated, and the score moved the drift.
C4_Witness ==
    /\ IsReverse(coef.ref)
    /\ objs[objs[coef.ref].sde].full
    /\ objs[objs[coef.ref].sde].G = <<<<1, 2>>, <<0, 1>>>>
    /\ coef.out.drift # objs[objs[coef.ref].sde].drift

(***************************************************************************)
(* Brownian.marginal_sample, checked under SpecMs.                         *)
(***************************************************************************)
\* C10: marginal_sample first calls manifold.random_walk; a result that is
\* not None is returned without building or running the sampler; on None no
\* error is raised and the final state of a 100-step Euler-Maruyama-on-
\* manifold integration up to t, with no corrector, is returned; the
\* integrator runs if and only if random_walk returned None.
C10_FallbackIffNoClosedForm ==
    /\ ~msWalk.called => (msSampler = Nothing /\ msOut = Nothing /\ msSteps = 0)
    /\ (msSampler # Nothing) => (msWalk.called /\ msWalk.ret = Nothing)
    /\ (msSteps > 0) => (msSampler # Nothing)
    /\ (msPc = "ret") =>
          /\ msWalk.called
          /\ IF msWalk.ret # Nothing
               THEN /\ msOut = msWalk.ret
                    /\ msSampler = Nothing
                    /\ msSteps = 0
               ELSE /\ msSampler =
                          Some([args |-> [sde |-> "self", N |-> 100,
                                          predictor |-> "EulerMaruyamaManifoldPredictor",
                                          corrector |-> NoneVal],
                                call |-> [rng |-> msArgs[1].rng, x |-> msArgs[1].x,
                                          tf |-> msArgs[1].t]])
                    /\ msSteps = 100
                    /\ msOut # Nothing
                    /\ msOut = msX

\* The fallback has run to its end and its last state was returned.
C10_Witness ==
    /\ msPc = "ret"
    /\ msWalk.called
    /\ msWalk.ret = Nothing
    /\ msSteps = 100
    /\ msOut = msX

(***************************************************************************)
(* mu of the Moser loss, checked under SpecMu.                             *)
(***************************************************************************)
\* C7: for every mu = base_density - div_drift and every eps, mu_plus >= eps
\* and mu_minus >= 0; mu < eps is no error and makes mu_minus positive.
C7_MuParts ==
    (muOut # Nothing) =>
        LET e == muIn[1].eps
            m == muIn[1].prob_base - muIn[1].div_drift
        IN  /\ muOut[1].mu_plus >= e
            /\ muOut[1].mu_minus >= 0
            /\ ~muOut[1].raised
            /\ (m < e) => (muOut[1].mu_minus > 0)
            /\ (m >= e) => (muOut[1].mu_minus = 0)

\* A negative mu below a positive eps has been split.
C7_Witness ==
    /\ muOut # Nothing
    /\ muIn[1].prob_base - muIn[1].div_drift < 0
    /\ muIn[1].eps > 0
    /\ muOut[1].mu_minus > muIn[1].eps
    /\ muOut[1].mu_plus = muIn[1].eps

(***************************************************************************)
(* The DSM reduction, checked under SpecRed.                               *)
(***************************************************************************)
\* C8 as stated: the DSM loss of a batch is the mean of the per-example
\* losses when reduce_mean=True and half of their sum over the batch when
\* reduce_mean=False, for both like_w settings.
C8_HalfSumOverBatch ==
    (redOut # Nothing) =>
        IF redIn[1].reduce_mean
          THEN RatEq(redOut[1].loss, Mean(redOut[1].losses))
          ELSE RatEq(redOut[1].loss, HalfSum(redOut[1].losses))

\* The sum of an example's squared errors, an integer: the errors are
\* scaled by std when like_w is off.
SumSquares(in, i) ==
    LET c == IF in.like_w THEN 1 ELSE in.std[i]
    IN  SumOver([j \in 1 .. in.D |->
                    (c * (in.score[i][j] - in.logp_grad[i][j]))
                        * (c * (in.score[i][j] - in.logp_grad[i][j]))],
                1 .. in.D)

\* C8, amended: the DSM loss is the mean over the batch of the per-example
\* losses whatever reduce_mean is; reduce_mean selects how each example's
\* squared errors are reduced over its components (their mean when True,
\* half their sum when False), the result being weighted by g2 under like_w.
C8_BatchMeanAlways ==
    (redOut # Nothing) =>
        LET in == redIn[1]
            out == redOut[1]
        IN  /\ RatEq(RatMul(out.loss, <<in.N, 1>>), RatSum(out.losses))
            /\ \A i \in 1 .. in.N :
                  out.losses[i][1] * (IF in.reduce_mean THEN in.D ELSE 2)
                      = out.losses[i][2] * (IF in.like_w THEN in.g2[i] ELSE 1)
                            * SumSquares(in, i)

\* A half-sum reduction over the components whose batch mean is not the
\* half-sum over the batch.
C8_Witness ==
    /\ redOut # Nothing
    /\ ~redIn[1].reduce_mean
    /\ redIn[1].D = 2
    /\ redOut[1].loss[1] > 0
    /\ ~RatEq(redOut[1].loss, HalfSum(redOut[1].losses))

====
